---- MODULE Spec2Model ----
(***************************************************************************)
(* Model of the fish-classification website back end:                      *)
(*   - Backend/main.py: CachedChatHistory (file-backed, size-capped chat   *)
(*     history) and ChatSessionManager (session id -> session object);     *)
(*   - main.py: the Flask handlers chat, clear_chat and get_history;       *)
(*   - Backend/image_classification.py: classify_image and its fallback.   *)
(***************************************************************************)
EXTENDS Integers, Sequences, FiniteSets, TLC

\* ------------------------------------------------------------------ bounds
MaxHistory == 20        \* the cap of add_to_history
MaxFileLen == 22        \* longest message list found in a backing file at start
MaxClock == 23          \* appends in a run of SpecAppend (logical clock)
MaxNonUser == 1         \* appends of SpecAppend that carry a role other than "user"
MaxOps == 3             \* session operations in a run of Spec
MaxWriteFaults == 1     \* failed writes of the backing file in a run

Roles == {"user", "assistant", "system"}
Contents == {"hi"}
Replies == {"reply"}
DiskOutcomes == {"ok", "open_fails", "write_fails"}
DefaultId == "default"
SessionIds == {"default", "s1"}
Threads == {1, 2}

\* ------------------------------------------------------------------ state
VARIABLES
    files,      \* session id -> content of chat_history_<id>.json
    heap,       \* the CachedChatHistory objects constructed so far
    sessions,   \* ChatSessionManager.sessions: session id -> index in heap, 0 = absent
    clock,      \* datetime.now(), as a logical clock
    pc,         \* thread -> position in the operation it runs
    loc,        \* thread -> locals of the operation it runs
    ret,        \* what the last completed operation returned
    seed,       \* ghost: the history as loaded by the constructor
    appended,   \* ghost: messages appended since construction or the last clear
    ops,        \* operations started (bound of Spec)
    nonUser,    \* appends with a role other than "user" (bound of SpecAppend)
    faults,     \* failed writes so far
    http,       \* the router's last request, its response and the state before it
    overlap,    \* ghost: a request started while another was being handled
    cls         \* the classifier: DL_MODEL, the last call's inputs and result

vars == <<files, heap, sessions, clock, pc, loc, ret, seed, appended, ops, nonUser, faults,
          http, overlap, cls>>

\* what the session store alone never touches
aside == <<sessions, http, overlap, cls>>

\* ------------------------------------------------------------------ data
Msg(role, content, ts) == [role |-> role, content |-> content, timestamp |-> ts]

\* s[-n:]
LastN(s, n) == IF Len(s) <= n THEN s ELSE SubSeq(s, Len(s) - n + 1, Len(s))

\* A backing file. kind: missing | unreadable | notjson | nonobject (valid JSON,
\* not an object) | nomessages (object without "messages") | badmessages (object
\* whose "messages" is not a list) | ok.
FileRec(kind, sid, upd, msgs) ==
    [kind |-> kind, session_id |-> sid, last_updated |-> upd, messages |-> msgs]

MissingFile == FileRec("missing", "", 0, <<>>)

\* A history as an earlier run of the program left it: user and assistant turns.
SeedMessages(n) ==
    [i \in 1..n |-> Msg(IF i % 2 = 1 THEN "user" ELSE "assistant", "old", i)]

SeedLens == {0, 1, MaxHistory - 1, MaxHistory, MaxHistory + 1, MaxFileLen}

StartFiles ==
    {FileRec(k, "", 0, <<>>) :
        k \in {"missing", "unreadable", "notjson", "nonobject", "nomessages", "badmessages"}}
    \cup {FileRec("ok", sid, n, SeedMessages(n)) : sid \in {DefaultId, "stale"}, n \in SeedLens}

\* A CachedChatHistory object. isList is FALSE when conversation_history holds a
\* value that is not a list (what "messages" held in the file).
Obj(sid, hist, isList) ==
    [session_id |-> sid, conversation_history |-> hist, isList |-> isList]

\* ------------------------------------------------------------------ CachedChatHistory
\* _load_history: only FileNotFoundError and JSONDecodeError are caught.
LoadHistory(f) ==
    CASE f.kind = "missing"     -> [raised |-> FALSE, isList |-> TRUE, value |-> <<>>]
      [] f.kind = "notjson"     -> [raised |-> FALSE, isList |-> TRUE, value |-> <<>>]
      [] f.kind = "unreadable"  -> [raised |-> TRUE, isList |-> TRUE, value |-> <<>>]
      [] f.kind = "nonobject"   -> [raised |-> TRUE, isList |-> TRUE, value |-> <<>>]
      [] f.kind = "nomessages"  -> [raised |-> FALSE, isList |-> TRUE, value |-> <<>>]
      [] f.kind = "badmessages" -> [raised |-> FALSE, isList |-> FALSE, value |-> <<>>]
      [] OTHER                  -> [raised |-> FALSE, isList |-> TRUE, value |-> f.messages]

\* __init__: the object, or raised when _load_history raises.
Construct(sid, f) ==
    LET l == LoadHistory(f)
    IN  [raised |-> l.raised, obj |-> Obj(sid, l.value, l.isList)]

\* (mutant) the file is opened in append mode: a second document makes it invalid JSON
SaveHistoryAppendMode(obj, f, now, disk) ==
    CASE disk = "open_fails"  -> [raised |-> TRUE, file |-> f]
      [] disk = "write_fails" -> [raised |-> TRUE, file |-> FileRec("notjson", "", 0, <<>>)]
      [] OTHER ->
            [raised |-> FALSE,
             file |-> IF f.kind = "missing"
                      THEN FileRec("ok", obj.session_id, now, obj.conversation_history)
                      ELSE FileRec("notjson", "", 0, <<>>)]

\* _save_history: the file is overwritten with the whole session state.
SaveHistory(obj, f, now, disk) ==
    CASE disk = "open_fails"  -> [raised |-> TRUE, file |-> f]
      [] disk = "write_fails" -> [raised |-> TRUE, file |-> FileRec("notjson", "", 0, <<>>)]
      [] OTHER ->
            [raised |-> FALSE,
             file |-> FileRec(IF obj.isList THEN "ok" ELSE "badmessages",
                              obj.session_id, now, obj.conversation_history)]

\* (mutant) the cap keeps the oldest entries: h[:20]
TruncateKeepsOldest(h) == IF Len(h) > MaxHistory THEN SubSeq(h, 1, MaxHistory) ELSE h

\* the truncation of add_to_history
Truncate(h) == IF Len(h) > MaxHistory THEN LastN(h, MaxHistory) ELSE h

\* add_to_history: append, truncate, save.
AddToHistoryOp(obj, f, clk, role, content, disk) ==
    IF ~obj.isList
    THEN [raised |-> TRUE, obj |-> obj, file |-> f, clock |-> clk]
    ELSE LET h2 == Truncate(Append(obj.conversation_history, Msg(role, content, clk + 1)))
             o2 == [obj EXCEPT !.conversation_history = h2]
             sv == SaveHistory(o2, f, clk + 1, disk)
         IN  [raised |-> sv.raised, obj |-> o2, file |-> sv.file, clock |-> clk + 1]

\* (mutant) clear_history forgets to save
ClearHistoryNoSave(obj, f, clk, disk) ==
    [raised |-> FALSE,
     obj |-> [obj EXCEPT !.conversation_history = <<>>, !.isList = TRUE],
     file |-> f, clock |-> clk]

\* clear_history
ClearHistoryOp(obj, f, clk, disk) ==
    LET o2 == [obj EXCEPT !.conversation_history = <<>>, !.isList = TRUE]
        sv == SaveHistory(o2, f, clk, disk)
    IN  [raised |-> sv.raised, obj |-> o2, file |-> sv.file, clock |-> clk]

\* ------------------------------------------------------------------ results
NoMsg == Msg("", "", 0)
NoLoc == [obj |-> 0, sid |-> "", user |-> NoMsg, snap |-> <<>>, phase |-> ""]

\* What an operation gave back: raised (an exception left it), the value it
\* returned and the cause of a failure.
Ret(op, raised, value, cause) ==
    [op |-> op, raised |-> raised, value |-> value, cause |-> cause]

NoBody == [kind |-> "absent", hasMessage |-> FALSE, hasSession |-> FALSE, session_id |-> ""]
NoHttp == [op |-> "none", body |-> NoBody, parse |-> "", disk |-> "ok", status |-> 0,
           success |-> FALSE, session_id |-> "", value |-> "", history |-> <<>>,
           before |-> <<>>]
NoInp == [fault |-> "none", ndim |-> 0, rows |-> 0, cols |-> 0, argmax |-> 0, prob |-> 0]
NoCls == [model |-> FALSE, called |-> FALSE, name |-> <<>>, draw |-> 0, inp |-> NoInp,
          label |-> "", confidence |-> 0, method |-> ""]

NoFiles == [id \in SessionIds |-> MissingFile]
NoSessions == [id \in SessionIds |-> 0]
Idle == [t \in Threads |-> "idle"]
NoLocs == [t \in Threads |-> NoLoc]

CanFault(disk) == disk = "ok" \/ faults < MaxWriteFaults
Faulted(disk) == IF disk = "ok" THEN 0 ELSE 1

\* ------------------------------------------------------------------ the session store, one session
\* session = CachedChatHistory() over any backing file
Init ==
    \E f \in StartFiles :
        LET c == Construct(DefaultId, f)
        IN  /\ files = [NoFiles EXCEPT ![DefaultId] = f]
            /\ heap = IF c.raised THEN <<>> ELSE <<c.obj>>
            /\ sessions = NoSessions
            /\ clock = f.last_updated
            /\ pc = Idle
            /\ loc = NoLocs
            /\ ret = Ret("init", c.raised, "", f.kind)
            /\ seed = IF c.raised THEN <<>> ELSE c.obj.conversation_history
            /\ appended = <<>>
            /\ ops = 0
            /\ nonUser = 0
            /\ faults = 0
            /\ http = NoHttp
            /\ overlap = FALSE
            /\ cls = NoCls

\* the effect of one add_to_history call on the session heap[1]
DoAdd(role, content, disk) ==
    LET r == AddToHistoryOp(heap[1], files[DefaultId], clock, role, content, disk)
    IN  /\ heap' = [heap EXCEPT ![1] = r.obj]
        /\ files' = [files EXCEPT ![DefaultId] = r.file]
        /\ clock' = r.clock
        /\ appended' = IF heap[1].isList
                       THEN Append(appended, Msg(role, content, clock + 1))
                       ELSE appended
        /\ faults' = faults + Faulted(disk)

AddRaised(role, content, disk) ==
    AddToHistoryOp(heap[1], files[DefaultId], clock, role, content, disk).raised

\* why an add_to_history call raised
AddCause(disk) == IF heap[1].isList THEN disk ELSE "not_a_list"

\* session.add_to_history(role, content)
AddToHistory ==
    /\ Len(heap) = 1 /\ pc[1] = "idle" /\ ops < MaxOps
    /\ \E role \in Roles, content \in Contents, disk \in DiskOutcomes :
          /\ CanFault(disk)
          /\ DoAdd(role, content, disk)
          /\ ret' = Ret("add_to_history", AddRaised(role, content, disk), "", AddCause(disk))
    /\ ops' = ops + 1
    /\ loc' = NoLocs
    /\ UNCHANGED <<aside, pc, seed, nonUser>>

\* get_response, line 49: the user message is appended and saved outside the try.
GetResponseBegin ==
    /\ Len(heap) = 1 /\ pc[1] = "idle" /\ ops < MaxOps
    /\ \E content \in Contents, disk \in DiskOutcomes :
          /\ CanFault(disk)
          /\ DoAdd("user", content, disk)
          /\ LET r == AddToHistoryOp(heap[1], files[DefaultId], clock, "user", content, disk)
             IN  IF r.raised
                 THEN /\ ret' = Ret("get_response", TRUE, "", AddCause(disk))
                      /\ loc' = NoLocs
                      /\ UNCHANGED pc
                 ELSE /\ ret' = Ret("get_response", FALSE, "", "calling")
                      /\ pc' = [pc EXCEPT ![1] = "calling"]
                      /\ loc' = [loc EXCEPT ![1] = [NoLoc EXCEPT !.obj = 1,
                                     !.user = Msg("user", content, clock + 1),
                                     !.snap = r.obj.conversation_history]]
    /\ ops' = ops + 1
    /\ UNCHANGED <<aside, seed, nonUser>>

\* (mutant) the except clause records the error string as the assistant's reply
CompletionFailsRecordsError ==
    /\ pc[1] = "calling"
    /\ \E cause \in {"api_error", "malformed_response"} :
          ret' = Ret("get_response", FALSE, "Error", cause)
    /\ DoAdd("assistant", "Error", "ok")
    /\ pc' = [pc EXCEPT ![1] = "idle"]
    /\ UNCHANGED <<aside, loc, seed, ops, nonUser>>

\* get_response, lines 53-60 raise (the API call, or choices[0] of a malformed
\* response): the except clause returns the error string.
CompletionFails ==
    /\ pc[1] = "calling"
    /\ \E cause \in {"api_error", "malformed_response"} :
          ret' = Ret("get_response", FALSE, "Error", cause)
    /\ pc' = [pc EXCEPT ![1] = "idle"]
    /\ UNCHANGED <<aside, files, heap, clock, loc, seed, appended, ops, nonUser, faults>>

\* get_response, lines 60-65: the reply is appended and saved inside the try.
CompletionReturns ==
    /\ pc[1] = "calling"
    /\ \E reply \in Replies, disk \in DiskOutcomes :
          /\ CanFault(disk)
          /\ DoAdd("assistant", reply, disk)
          /\ LET r == AddToHistoryOp(heap[1], files[DefaultId], clock, "assistant", reply, disk)
             IN  ret' = IF r.raised
                        THEN Ret("get_response", FALSE, "Error", "save_failed")
                        ELSE Ret("get_response", FALSE, reply, "")
    /\ pc' = [pc EXCEPT ![1] = "idle"]
    /\ UNCHANGED <<aside, loc, seed, ops, nonUser>>

\* session.clear_history()
ClearHistory ==
    /\ Len(heap) = 1 /\ pc[1] = "idle" /\ ops < MaxOps
    /\ \E disk \in DiskOutcomes :
          /\ CanFault(disk)
          /\ LET r == ClearHistoryOp(heap[1], files[DefaultId], clock, disk)
             IN  /\ heap' = [heap EXCEPT ![1] = r.obj]
                 /\ files' = [files EXCEPT ![DefaultId] = r.file]
                 /\ ret' = Ret("clear_history", r.raised, "", disk)
          /\ faults' = faults + Faulted(disk)
    /\ seed' = <<>>
    /\ appended' = <<>>
    /\ ops' = ops + 1
    /\ loc' = NoLocs
    /\ UNCHANGED <<aside, clock, pc, nonUser>>

Next == AddToHistory \/ GetResponseBegin \/ CompletionFails \/ CompletionReturns \/ ClearHistory

Spec == Init /\ [][Next]_vars

\* A long run of add_to_history calls on one session.
AppendRun ==
    /\ Len(heap) = 1 /\ pc[1] = "idle" /\ clock < MaxClock
    /\ \E role \in Roles, content \in Contents, disk \in DiskOutcomes :
          /\ CanFault(disk)
          /\ role = "user" \/ nonUser < MaxNonUser
          /\ DoAdd(role, content, disk)
          /\ ret' = Ret("add_to_history", AddRaised(role, content, disk), "", AddCause(disk))
          /\ nonUser' = nonUser + (IF role = "user" THEN 0 ELSE 1)
    /\ UNCHANGED <<aside, pc, loc, seed, ops>>

NextAppend == AppendRun

SpecAppend == Init /\ [][NextAppend]_vars

\* ------------------------------------------------------------------ claims on the session store
TheSession == heap[1]
History == heap[1].conversation_history
BackingFile == files[DefaultId]

\* C1: the in-memory conversation_history never holds more than 20 messages,
\* from construction onward, whatever the backing file held.
C1_HistoryAtMostCap ==
    Len(heap) = 1 => Len(History) <= MaxHistory

\* C2: a session that starts empty holds, after N add_to_history calls, exactly
\* the last min(N, 20) appended messages in their original order.
C2_RetainsLastAppended ==
    (Len(heap) = 1 /\ TheSession.isList /\ seed = <<>>) =>
        LET n == Len(appended)
            k == IF n < MaxHistory THEN n ELSE MaxHistory
        IN  /\ Len(History) = k
            /\ \A i \in 1..k : History[i] = appended[n - k + i]

C2_Witness ==
    /\ Len(heap) = 1 /\ seed = <<>>
    /\ Len(appended) = MaxHistory + 2
    /\ Len(History) = MaxHistory
    /\ History[1] = appended[3]

\* C3: get_response has appended and saved the user message before the remote
\* call is issued; when the call fails it returns the error string without
\* raising, and memory and file both end with the user message.
UserMessageIsLast ==
    /\ Len(History) > 0
    /\ History[Len(History)] = loc[1].user
    /\ BackingFile.kind = "ok"
    /\ Len(BackingFile.messages) > 0
    /\ BackingFile.messages[Len(BackingFile.messages)] = loc[1].user

CallFailed == ret.op = "get_response" /\ ret.cause \in {"api_error", "malformed_response"}

C3_UserMessageSurvivesFailedCall ==
    /\ pc[1] = "calling" => UserMessageIsLast
    /\ (pc[1] = "idle" /\ CallFailed) =>
          /\ ~ret.raised
          /\ ret.value = "Error"
          /\ loc[1].user.role = "user"
          /\ UserMessageIsLast

C3_Witness ==
    /\ pc[1] = "idle" /\ CallFailed
    /\ Len(History) = MaxHistory
    /\ History[Len(History)].role = "user"

\* C4: after every completed add_to_history and clear_history the backing file
\* holds the in-memory messages and the session's id; after clear_history both
\* are empty.
MutationCompleted ==
    /\ Len(heap) = 1
    /\ ret.op \in {"add_to_history", "get_response", "clear_history"}
    /\ ~ret.raised
    /\ ret.cause # "save_failed"

C4_FileMirrorsMemory ==
    MutationCompleted =>
        /\ BackingFile.kind = "ok"
        /\ BackingFile.messages = History
        /\ BackingFile.session_id = TheSession.session_id
        /\ ret.op = "clear_history" => (History = <<>> /\ BackingFile.messages = <<>>)

C4_Witness ==
    /\ MutationCompleted
    /\ ret.op = "clear_history"
    /\ clock > 0
    /\ BackingFile.messages = <<>>
    /\ BackingFile.session_id = DefaultId

\* C5: constructing a session over a missing, unreadable or malformed backing
\* file never raises and starts from an empty history.
C5_BadFileStartsEmpty ==
    (ret.op = "init" /\ ret.cause # "ok") =>
        /\ ~ret.raised
        /\ Len(heap) = 1
        /\ TheSession.isList
        /\ History = <<>>

\* ------------------------------------------------------------------ ChatSessionManager
\* get_session: the mapped object, or a new one constructed over the backing file.
GetSessionOp(ss, hp, fs, sid) ==
    IF ss[sid] # 0
    THEN [raised |-> FALSE, sessions |-> ss, heap |-> hp, idx |-> ss[sid]]
    ELSE LET c == Construct(sid, fs[sid])
         IN  IF c.raised
             THEN [raised |-> TRUE, sessions |-> ss, heap |-> hp, idx |-> 0]
             ELSE [raised |-> FALSE,
                   sessions |-> [ss EXCEPT ![sid] = Len(hp) + 1],
                   heap |-> Append(hp, c.obj),
                   idx |-> Len(hp) + 1]

\* get_response as one call: the user message (outside the try), the remote
\* call, the reply (inside the try).
GetResponseOp(obj, f, clk, content, outcome, d1, d2) ==
    LET a == AddToHistoryOp(obj, f, clk, "user", content, d1)
        b == AddToHistoryOp(a.obj, a.file, a.clock, "assistant", "reply", d2)
    IN  IF a.raised
        THEN [raised |-> TRUE, value |-> "", obj |-> a.obj, file |-> a.file, clock |-> a.clock]
        ELSE IF outcome # "reply"
        THEN [raised |-> FALSE, value |-> "Error", obj |-> a.obj, file |-> a.file,
              clock |-> a.clock]
        ELSE [raised |-> FALSE, value |-> IF b.raised THEN "Error" ELSE "reply",
              obj |-> b.obj, file |-> b.file, clock |-> b.clock]

\* ------------------------------------------------------------------ the router (main.py)
MaxRequests == 2        \* requests handled in a run of SpecRouter

\* Request bodies: none at all, a JSON object with or without its two fields,
\* a JSON array, a non-zero JSON number.
Bodies ==
    {NoBody}
    \cup {[kind |-> "object", hasMessage |-> m, hasSession |-> FALSE, session_id |-> ""] :
             m \in BOOLEAN}
    \cup {[kind |-> "object", hasMessage |-> m, hasSession |-> TRUE, session_id |-> sid] :
             m \in BOOLEAN, sid \in SessionIds}
    \cup {[kind |-> k, hasMessage |-> FALSE, hasSession |-> FALSE, session_id |-> ""] :
             k \in {"array", "number"}}

\* request.get_json(): the parsed value; for a request without a JSON body either
\* None (no JSON content type, older Flask) or an HTTP exception (BadRequest for an
\* empty JSON body, UnsupportedMediaType in newer Flask).
GetJson(body) == IF body.kind = "absent" THEN {"none", "raises"} ELSE {"value"}

SessionOf(body) == IF body.hasSession THEN body.session_id ELSE DefaultId

Answer(status, value, sid, fs, hp, ss, clk) ==
    [status |-> status, success |-> (status = 200), value |-> value, session_id |-> sid,
     history |-> <<>>, files |-> fs, heap |-> hp, sessions |-> ss, clock |-> clk]

\* chat(): POST /api/chat
ChatOp(fs, hp, ss, clk, body, parse, outcome, d1, d2) ==
    IF parse = "raises" THEN Answer(500, "", "", fs, hp, ss, clk)
    ELSE IF parse = "none" \/ body.kind = "array" \/ (body.kind = "object" /\ ~body.hasMessage)
    THEN Answer(400, "No message provided", "", fs, hp, ss, clk)
    ELSE IF body.kind = "number" THEN Answer(500, "", "", fs, hp, ss, clk)
    ELSE LET sid == SessionOf(body)
             g == GetSessionOp(ss, hp, fs, sid)
         IN  IF g.raised THEN Answer(500, "", "", fs, hp, ss, clk)
             ELSE LET r == GetResponseOp(g.heap[g.idx], fs[sid], clk, "hi", outcome, d1, d2)
                      hp2 == [g.heap EXCEPT ![g.idx] = r.obj]
                      fs2 == [fs EXCEPT ![sid] = r.file]
                  IN  IF r.raised
                      THEN Answer(500, "", "", fs2, hp2, g.sessions, r.clock)
                      ELSE Answer(200, r.value, sid, fs2, hp2, g.sessions, r.clock)

\* clear_chat(): POST /api/chat/clear
ClearChatOp(fs, hp, ss, clk, body, parse, d1) ==
    IF parse = "raises" \/ parse = "none" \/ body.kind # "object"
    THEN Answer(500, "", "", fs, hp, ss, clk)
    ELSE LET sid == SessionOf(body)
             g == GetSessionOp(ss, hp, fs, sid)
         IN  IF g.raised THEN Answer(500, "", "", fs, hp, ss, clk)
             ELSE LET r == ClearHistoryOp(g.heap[g.idx], fs[sid], clk, d1)
                      hp2 == [g.heap EXCEPT ![g.idx] = r.obj]
                      fs2 == [fs EXCEPT ![sid] = r.file]
                  IN  IF r.raised
                      THEN Answer(500, "", "", fs2, hp2, g.sessions, r.clock)
                      ELSE Answer(200, "Chat history cleared", "", fs2, hp2, g.sessions, r.clock)

\* get_history(): GET /api/chat/history
GetHistoryOp(fs, hp, ss, clk, sid) ==
    LET g == GetSessionOp(ss, hp, fs, sid)
    IN  IF g.raised THEN Answer(500, "", "", fs, hp, ss, clk)
        ELSE IF ~g.heap[g.idx].isList
        THEN Answer(500, "", "", fs, g.heap, g.sessions, clk)
        ELSE [Answer(200, "", sid, fs, g.heap, g.sessions, clk) EXCEPT
                 !.history = SelectSeq(g.heap[g.idx].conversation_history,
                                       LAMBDA m : m.role # "system")]

RouterFiles ==
    {FileRec(k, "", 0, <<>>) : k \in {"missing", "nonobject", "badmessages"}}
    \cup {FileRec("ok", DefaultId, n, SeedMessages(n)) : n \in {1, MaxHistory}}

InitRouter ==
    \E f \in RouterFiles :
        /\ files = [NoFiles EXCEPT ![DefaultId] = f]
        /\ heap = <<>>
        /\ sessions = NoSessions
        /\ clock = f.last_updated
        /\ pc = Idle
        /\ loc = NoLocs
        /\ ret = Ret("none", FALSE, "", "")
        /\ seed = <<>>
        /\ appended = <<>>
        /\ ops = 0
        /\ nonUser = 0
        /\ faults = 0
        /\ http = NoHttp
        /\ overlap = FALSE
        /\ cls = NoCls

\* the response is sent and the handler's effects are in place
Respond(op, body, parse, disk, r) ==
    /\ http' = [op |-> op, body |-> body, parse |-> parse, disk |-> disk,
                status |-> r.status, success |-> r.success, session_id |-> r.session_id,
                value |-> r.value, history |-> r.history,
                before |-> <<files, heap, sessions>>]
    /\ files' = r.files
    /\ heap' = r.heap
    /\ sessions' = r.sessions
    /\ clock' = r.clock
    /\ ops' = ops + 1
    /\ UNCHANGED <<pc, loc, ret, seed, appended, nonUser, overlap, cls>>

Chat ==
    /\ ops < MaxRequests
    /\ \E body \in Bodies, outcome \in {"api_error", "malformed_response", "reply"},
          d1 \in DiskOutcomes, d2 \in DiskOutcomes :
          \E parse \in GetJson(body) :
              /\ faults + Faulted(d1) + Faulted(d2) <= MaxWriteFaults
              /\ faults' = faults + Faulted(d1) + Faulted(d2)
              /\ Respond("chat", body, parse, IF d1 = "ok" THEN d2 ELSE d1,
                         ChatOp(files, heap, sessions, clock, body, parse, outcome, d1, d2))

ClearChat ==
    /\ ops < MaxRequests
    /\ \E body \in Bodies, d1 \in DiskOutcomes :
          \E parse \in GetJson(body) :
              /\ CanFault(d1)
              /\ faults' = faults + Faulted(d1)
              /\ Respond("clear", body, parse, d1,
                         ClearChatOp(files, heap, sessions, clock, body, parse, d1))

GetHistory ==
    /\ ops < MaxRequests
    /\ \E sid \in SessionIds :
          /\ Respond("history", [NoBody EXCEPT !.session_id = sid], "", "ok",
                     GetHistoryOp(files, heap, sessions, clock, sid))
          /\ UNCHANGED faults

NextRouter == Chat \/ ClearChat \/ GetHistory

SpecRouter == InitRouter /\ [][NextRouter]_vars

\* ------------------------------------------------------------------ claims on the router
RequestSession == SessionOf(http.body)

\* the session of the request existed, or could be constructed, when it arrived
Resolvable ==
    \/ http.before[3][RequestSession] # 0
    \/ ~Construct(RequestSession, http.before[1][RequestSession]).raised

\* C6: a history-clear request whose session can be resolved answers 200 with
\* success = true for every body shape (an absent body means session "default")
\* and leaves that session's history empty in memory and on file.
C6_ClearAlwaysSucceeds ==
    (http.op = "clear" /\ http.disk = "ok" /\ Resolvable) =>
        /\ http.status = 200
        /\ http.success
        /\ sessions[RequestSession] # 0
        /\ heap[sessions[RequestSession]].conversation_history = <<>>
        /\ files[RequestSession].kind = "ok"
        /\ files[RequestSession].messages = <<>>

\* C7: a chat request whose body is absent, empty or without the message field
\* answers 400 with success = false and changes no session, history or file.
LacksMessage ==
    \/ http.body.kind = "absent"
    \/ http.body.kind = "object" /\ ~http.body.hasMessage

C7_MissingMessageIs400 ==
    (http.op = "chat" /\ LacksMessage) =>
        /\ http.status = 400
        /\ ~http.success
        /\ <<files, heap, sessions>> = http.before

\* ------------------------------------------------------------------ the classifier (image_classification.py)
MaxNameLen == 2         \* longest file base name classified
DrawSteps == 1024       \* random.random() is drawn from the grid k / DrawSteps, 0 <= k < DrawSteps

LABELS == <<"Bele", "Chela", "Guchi", "Kachki", "Kata Phasa",
            "Mola", "Nama Chanda", "Pabda", "Puti", "Tengra">>

\* base names, as sequences of character codes ('a', 'b')
Alphabet == {97, 98}
Names == UNION {[1..n -> Alphabet] : n \in 0..MaxNameLen}

\* what the model side does with one image: an exception of load_img or of
\* predict, an output that is no array, or an array of some shape with its
\* arg-max and the probability there (in 1/10000).
Shapes == {[fault |-> "none", ndim |-> d, rows |-> r, cols |-> c, argmax |-> 0, prob |-> 0] :
              d \in {1, 2, 3}, r \in {0, 1}, c \in {Len(LABELS) - 1, Len(LABELS)}}
GoodShape(i) == i.fault = "none" /\ i.ndim = 2 /\ i.cols = Len(LABELS)
ModelInputs ==
    {[NoInp EXCEPT !.fault = f] : f \in {"load_img", "predict", "not_array"}}
    \cup {i \in Shapes : ~(GoodShape(i) /\ i.rows > 0)}
    \cup {[fault |-> "none", ndim |-> 2, rows |-> 1, cols |-> Len(LABELS), argmax |-> a, prob |-> q] :
             a \in {0, Len(LABELS) - 1}, q \in {0, 3333, 9996, 10000}}

\* n / d rounded to the nearest integer, ties to even (Python's round)
RoundHalfEven(n, d) ==
    LET q == n \div d
        r == n % d
    IN  IF 2 * r < d THEN q
        ELSE IF 2 * r > d THEN q + 1
        ELSE IF q % 2 = 0 THEN q ELSE q + 1

RECURSIVE SumCodes(_)
SumCodes(name) == IF name = <<>> THEN 0 ELSE name[1] + SumCodes(Tail(name))

\* the module-level load: DL_MODEL is None unless the file exists and loads
LoadModel(kind) == kind = "loaded"

\* (mutant) the prediction is accepted whatever its shape
PredictNoShapeCheck(model, i) ==
    IF ~model \/ i.fault # "none" \/ i.rows = 0
    THEN [raised |-> TRUE, label |-> "", confidence |-> 0]
    ELSE [raised |-> FALSE, label |-> LABELS[(i.argmax % Len(LABELS)) + 1],
          confidence |-> RoundHalfEven(i.prob, 10)]

\* _predict_with_model: (label, confidence in 1/1000), or an exception
PredictWithModel(model, i) ==
    IF ~model THEN [raised |-> TRUE, label |-> "", confidence |-> 0]
    ELSE IF i.fault # "none" THEN [raised |-> TRUE, label |-> "", confidence |-> 0]
    ELSE IF i.ndim = 2 /\ i.cols = Len(LABELS)
    THEN IF i.rows = 0
         THEN [raised |-> TRUE, label |-> "", confidence |-> 0]
         ELSE [raised |-> FALSE, label |-> LABELS[i.argmax + 1],
               confidence |-> RoundHalfEven(i.prob, 10)]
    ELSE [raised |-> TRUE, label |-> "", confidence |-> 0]

\* (mutant) the confidence is spread over 0.7 + r * 0.4
DeterministicFallbackWide(name, k) ==
    [label |-> LABELS[(SumCodes(name) % Len(LABELS)) + 1],
     confidence |-> RoundHalfEven(700 * DrawSteps + 400 * k, DrawSteps)]

\* _deterministic_fallback with the seeded draw r = k / DrawSteps:
\* round(0.7 + r * 0.3, 3), in 1/1000
DeterministicFallback(name, k) ==
    [label |-> LABELS[(SumCodes(name) % Len(LABELS)) + 1],
     confidence |-> RoundHalfEven(700 * DrawSteps + 300 * k, DrawSteps)]

\* classify_image
ClassifyImage(model, name, k, i) ==
    LET p == PredictWithModel(model, i)
        f == DeterministicFallback(name, k)
    IN  IF ~p.raised
        THEN [label |-> p.label, confidence |-> p.confidence, method |-> "dl"]
        ELSE [label |-> f.label, confidence |-> f.confidence, method |-> "fallback"]

InitClassify ==
    /\ \E kind \in {"no_file", "load_fails", "loaded"} :
          cls = [NoCls EXCEPT !.model = LoadModel(kind)]
    /\ files = NoFiles
    /\ heap = <<>>
    /\ sessions = NoSessions
    /\ clock = 0
    /\ pc = Idle
    /\ loc = NoLocs
    /\ ret = Ret("none", FALSE, "", "")
    /\ seed = <<>>
    /\ appended = <<>>
    /\ ops = 0
    /\ nonUser = 0
    /\ faults = 0
    /\ http = NoHttp
    /\ overlap = FALSE

\* One call classify_image(file_path) (the function keeps no state between
\* calls). The model side is consulted only when a model is loaded, the random
\* draw is made only by the fallback.
Classify ==
    /\ ~cls.called
    /\ \E name \in Names, i \in ModelInputs, k \in 0..(DrawSteps - 1) :
          /\ ~cls.model => i = NoInp
          /\ ~PredictWithModel(cls.model, i).raised => k = 0
          /\ LET c == ClassifyImage(cls.model, name, k, i)
             IN  cls' = [cls EXCEPT !.called = TRUE, !.name = name, !.draw = k, !.inp = i,
                                    !.label = c.label, !.confidence = c.confidence,
                                    !.method = c.method]
    /\ UNCHANGED <<files, heap, sessions, clock, pc, loc, ret, seed, appended, ops, nonUser,
                   faults, http, overlap>>

NextClassify == Classify

SpecClassify == InitClassify /\ [][NextClassify]_vars

\* ------------------------------------------------------------------ claims on the classifier
LabelSet == {LABELS[i] : i \in 1..Len(LABELS)}

\* an exception leaves _predict_with_model before or after predict()
ModelSideRaises ==
    \/ cls.inp.fault # "none"
    \/ GoodShape(cls.inp) /\ cls.inp.rows = 0

C9_ConfidenceBelowOne ==
    (cls.called /\ cls.method = "fallback") =>
        (700 <= cls.confidence /\ cls.confidence < 1000)

\* C9 (amended): the fallback confidence lies in the closed interval [0.7, 1.0];
\* the rounding to 3 decimals reaches 1.0.
C9_ConfidenceWithinClosed ==
    (cls.called /\ cls.method = "fallback") =>
        (700 <= cls.confidence /\ cls.confidence <= 1000)

C9_Witness ==
    /\ cls.called /\ cls.method = "fallback"
    /\ cls.draw < DrawSteps
    /\ cls.confidence = 1000

\* ------------------------------------------------------------------ two chat requests at once
\* Flask serves each request on its own thread and nothing is locked. Each
\* thread handles one POST /api/chat {"message": ...} for session "default".
\* A thread switch is modelled between the steps below (a subset of the points
\* where the interpreter may switch): the membership test, the construction, the
\* insertion and the final lookup of get_session; the append, the slice and the
\* re-assignment of add_to_history; _save_history as one step; the remote call.
ConcFiles == {MissingFile, FileRec("ok", DefaultId, MaxHistory - 1, SeedMessages(MaxHistory - 1))}

InitConc ==
    \E f \in ConcFiles, existing \in BOOLEAN :
        /\ files = [NoFiles EXCEPT ![DefaultId] = f]
        /\ heap = IF existing THEN <<Construct(DefaultId, f).obj>> ELSE <<>>
        /\ sessions = [NoSessions EXCEPT ![DefaultId] = IF existing THEN 1 ELSE 0]
        /\ clock = f.last_updated
        /\ pc = Idle
        /\ loc = NoLocs
        /\ ret = Ret("none", FALSE, "", "")
        /\ seed = f.messages
        /\ appended = <<>>
        /\ ops = 0
        /\ nonUser = 0
        /\ faults = 0
        /\ http = NoHttp
        /\ overlap = FALSE
        /\ cls = NoCls

Busy(t) == pc[t] \notin {"idle", "done"}

concAside == <<ret, seed, ops, nonUser, faults, http, cls>>

\* the request arrives: chat() reads message and session_id
Start(t) ==
    /\ pc[t] = "idle"
    /\ pc' = [pc EXCEPT ![t] = "check"]
    /\ loc' = [loc EXCEPT ![t] = [NoLoc EXCEPT !.sid = DefaultId]]
    /\ overlap' = (overlap \/ \E u \in Threads \ {t} : Busy(u))
    /\ UNCHANGED <<files, heap, sessions, clock, appended, concAside>>

\* get_session: if session_id not in self.sessions
Check(t) ==
    /\ pc[t] = "check"
    /\ pc' = [pc EXCEPT ![t] = IF sessions[loc[t].sid] # 0 THEN "lookup" ELSE "construct"]
    /\ UNCHANGED <<files, heap, sessions, clock, loc, appended, overlap, concAside>>

\* get_session: CachedChatHistory(session_id) loads the backing file
ConstructSession(t) ==
    /\ pc[t] = "construct"
    /\ LET c == Construct(loc[t].sid, files[loc[t].sid])
       IN  IF c.raised
           THEN /\ pc' = [pc EXCEPT ![t] = "done"]
                /\ UNCHANGED <<heap, loc>>
           ELSE /\ heap' = Append(heap, c.obj)
                /\ loc' = [loc EXCEPT ![t].obj = Len(heap) + 1]
                /\ pc' = [pc EXCEPT ![t] = "insert"]
    /\ UNCHANGED <<files, sessions, clock, appended, overlap, concAside>>

\* get_session: self.sessions[session_id] = <the new object>
Insert(t) ==
    /\ pc[t] = "insert"
    /\ sessions' = [sessions EXCEPT ![loc[t].sid] = loc[t].obj]
    /\ pc' = [pc EXCEPT ![t] = "lookup"]
    /\ UNCHANGED <<files, heap, clock, loc, appended, overlap, concAside>>

\* get_session: return self.sessions[session_id]; get_response begins
Lookup(t) ==
    /\ pc[t] = "lookup"
    /\ loc' = [loc EXCEPT ![t].obj = sessions[loc[t].sid], ![t].phase = "user"]
    /\ pc' = [pc EXCEPT ![t] = "append"]
    /\ UNCHANGED <<files, heap, sessions, clock, appended, overlap, concAside>>

\* add_to_history: self.conversation_history.append(...)
AppendMessage(t) ==
    /\ pc[t] = "append"
    /\ LET m == Msg(loc[t].phase, IF loc[t].phase = "user" THEN "hi" ELSE "reply", clock + 1)
           o == heap[loc[t].obj]
       IN  /\ heap' = [heap EXCEPT ![loc[t].obj].conversation_history =
                                        Append(o.conversation_history, m)]
           /\ appended' = Append(appended, m)
    /\ clock' = clock + 1
    /\ pc' = [pc EXCEPT ![t] = "slice"]
    /\ UNCHANGED <<files, sessions, loc, overlap, concAside>>

\* add_to_history: if len(...) > 20, evaluate self.conversation_history[-20:]
Slice(t) ==
    /\ pc[t] = "slice"
    /\ LET h == heap[loc[t].obj].conversation_history
       IN  IF Len(h) > MaxHistory
           THEN /\ loc' = [loc EXCEPT ![t].snap = Truncate(h)]
                /\ pc' = [pc EXCEPT ![t] = "assign"]
           ELSE /\ pc' = [pc EXCEPT ![t] = "save"]
                /\ UNCHANGED loc
    /\ UNCHANGED <<files, heap, sessions, clock, appended, overlap, concAside>>

\* add_to_history: self.conversation_history = <the slice>
Assign(t) ==
    /\ pc[t] = "assign"
    /\ heap' = [heap EXCEPT ![loc[t].obj].conversation_history = loc[t].snap]
    /\ pc' = [pc EXCEPT ![t] = "save"]
    /\ UNCHANGED <<files, sessions, clock, loc, appended, overlap, concAside>>

\* add_to_history: self._save_history()
Save(t) ==
    /\ pc[t] = "save"
    /\ files' = [files EXCEPT ![loc[t].sid] =
                    SaveHistory(heap[loc[t].obj], files[loc[t].sid], clock, "ok").file]
    /\ pc' = [pc EXCEPT ![t] = IF loc[t].phase = "user" THEN "call" ELSE "done"]
    /\ UNCHANGED <<heap, sessions, clock, loc, appended, overlap, concAside>>

\* get_response: the remote call returns a reply, or fails and the error string
\* is returned
RemoteCall(t) ==
    /\ pc[t] = "call"
    /\ \/ /\ pc' = [pc EXCEPT ![t] = "append"]
          /\ loc' = [loc EXCEPT ![t].phase = "assistant"]
       \/ /\ pc' = [pc EXCEPT ![t] = "done"]
          /\ UNCHANGED loc
    /\ UNCHANGED <<files, heap, sessions, clock, appended, overlap, concAside>>

NextConc ==
    \E t \in Threads :
        \/ Start(t) \/ Check(t) \/ ConstructSession(t) \/ Insert(t) \/ Lookup(t)
        \/ AppendMessage(t) \/ Slice(t) \/ Assign(t) \/ Save(t) \/ RemoteCall(t)

SpecConc == InitConc /\ [][NextConc]_vars

\* ------------------------------------------------------------------ claims on concurrent requests
Quiet == \A t \in Threads : ~Busy(t)
Range(q) == {q[i] : i \in 1..Len(q)}
MappedHistory == heap[sessions[DefaultId]].conversation_history

\* the messages the cap does not evict: the last 20 of everything appended
Retained == LastN(seed \o appended, MaxHistory)

\* C10: two chat requests for one session handled at the same time can lose an
\* update, a message one of them appended being absent from the final history
\* or from the backing file although the cap did not evict it (C10_LostUpdate
\* is reached); requests that do not overlap lose nothing.
C10_OnlyOverlapLosesUpdates ==
    (Quiet /\ ~overlap /\ appended # <<>>) =>
        /\ sessions[DefaultId] # 0
        /\ MappedHistory = Retained
        /\ files[DefaultId].kind = "ok"
        /\ files[DefaultId].messages = Retained

C10_LostUpdate ==
    /\ \A t \in Threads : pc[t] = "done"
    /\ overlap
    /\ sessions[DefaultId] # 0
    /\ \E m \in Range(appended) \cap Range(Retained) :
          \/ m \notin Range(MappedHistory)
          \/ m \notin Range(files[DefaultId].messages)

====
